---- MODULE Spec2Model ----
(***************************************************************************)
(* Model of the analysis engine of obsidian-diary-mcp                      *)
(* (src/obsidian_diary_mcp/analysis.py, memory_trace.py).                  *)
(*                                                                         *)
(* Strings are sequences of one-character strings, so that the regular     *)
(* expressions and str methods of the source are computed character by     *)
(* character.                                                              *)
(***************************************************************************)
EXTENDS Integers, Sequences, FiniteSets, TLC

VARIABLES
  fpc, fin, fout,       \* a call of a pure operation: position, input, output
  theme_cache,          \* AnalysisEngine._theme_cache
  unreadable,           \* Entry Store: the stems whose file cannot be read
  nops,                 \* operations started so far
  op,                   \* the running operation: "none", "fre", "mt", "gtc"
  pc,                   \* its position
  arg,                  \* the arguments of the running get_themes_cached call
  ret,                  \* the value the last get_themes_cached call returned
  served,               \* how that call was served
  nreq,                 \* generation requests issued so far
  entries,              \* the list the scan iterates over
  idx,                  \* the position of the scan in entries
  exclude_date, max_related, current_themes, similarity_scores,
  entry_data, all_themes,
  result,               \* the value the operation returned
  reads,                \* the stems read by the running scan, in order
  skipped,              \* the stems the running scan skipped as read failures
  failed,               \* the stems whose generation request failed in the scan
  contributed,          \* the ThemeSet each scanned stem contributed
  outstanding,          \* generation requests issued and not yet completed
  stored                \* with several callers: what each call stored, in order

fvars == <<fpc, fin, fout>>
scanvars == <<entries, idx, exclude_date, max_related, current_themes,
              similarity_scores, entry_data, all_themes>>
histvars == <<reads, skipped, failed, contributed>>
mvars == <<theme_cache, unreadable, nops, op, pc, arg, ret, served, nreq,
           scanvars, result, histvars, outstanding, stored>>
vars == <<fvars, mvars>>

(***************************************************************************)
(* Character classes of Python's re module and str methods, over the       *)
(* characters the model uses.                                              *)
(***************************************************************************)
LowerLetters == {"a", "b", "c", "d", "e", "f", "h", "i", "k", "m", "n", "o",
                 "p", "r", "s", "t", "w", "x", "y"}
UpperLetters == {"A", "B", "F", "R", "W"}
Digits == {"0", "1", "2", "3", "4", "5", "6", "7", "8", "9"}
WordChars == LowerLetters \cup UpperLetters \cup Digits \cup {"_"}
SpaceChars == {" ", "\n"}

\* str.lower() on one character
LowerChar(c) ==
  CASE c = "A" -> "a"
    [] c = "B" -> "b"
    [] c = "F" -> "f"
    [] c = "R" -> "r"
    [] c = "W" -> "w"
    [] OTHER -> c

\* str.lower()
Lower(s) == [i \in 1..Len(s) |-> LowerChar(s[i])]

\* str.strip(chars): drop the leading and trailing characters that are in cs
StripChars(s, cs) ==
  LET keep == {i \in 1..Len(s) : s[i] \notin cs}
  IN IF keep = {} THEN <<>>
     ELSE LET lo == CHOOSE i \in keep : \A j \in keep : i <= j
              hi == CHOOSE i \in keep : \A j \in keep : j <= i
          IN SubSeq(s, lo, hi)

\* str.strip()
Strip(s) == StripChars(s, SpaceChars)

\* sub in s
Contains(s, sub) ==
  \E i \in 0..(Len(s) - Len(sub)) : SubSeq(s, i + 1, i + Len(sub)) = sub

\* s.endswith(suf)
EndsWith(s, suf) ==
  Len(s) >= Len(suf) /\ SubSeq(s, Len(s) - Len(suf) + 1, Len(s)) = suf

RECURSIVE SplitFrom(_, _, _, _)
SplitFrom(s, seps, i, cur) ==
  IF i > Len(s) THEN <<cur>>
  ELSE IF s[i] \in seps THEN <<cur>> \o SplitFrom(s, seps, i + 1, <<>>)
  ELSE SplitFrom(s, seps, i + 1, Append(cur, s[i]))

\* re.split(r"[seps]", s) and str.split(sep): the pieces between separators
SplitOn(s, seps) == SplitFrom(s, seps, 1, <<>>)

RECURSIVE SubRunsFrom(_, _, _, _)
SubRunsFrom(s, bad, rep, i) ==
  IF i > Len(s) THEN <<>>
  ELSE IF bad[i]
       THEN (IF i > 1 /\ bad[i - 1] THEN <<>> ELSE rep)
            \o SubRunsFrom(s, bad, rep, i + 1)
       ELSE <<s[i]>> \o SubRunsFrom(s, bad, rep, i + 1)

\* re.sub(r"[class]+", rep, s): every maximal run of characters of the class
\* (inClass TRUE: the class is cs; FALSE: the class is the complement of cs)
\* becomes rep
SubRuns(s, cs, inClass, rep) ==
  SubRunsFrom(s, [i \in 1..Len(s) |-> (s[i] \in cs) = inClass], rep, 1)

(***************************************************************************)
(* generate_topic_tags (analysis.py 106-136)                               *)
(***************************************************************************)
KeyThemes == <<"k", "e", "y", " ", "t", "h", "e", "m", "e", "s">>
Extracted == <<"e", "x", "t", "r", "a", "c", "t", "e", "d">>
ExtractedFrom == Extracted \o <<" ", "f", "r", "o", "m">>
JournalEntry == <<"j", "o", "u", "r", "n", "a", "l", " ", "e", "n", "t", "r", "y">>

\* the list tested at line 115
PreambleMarkers == {KeyThemes, ExtractedFrom}
\* skip_phrases, line 111
TagSkipPhrases == {KeyThemes, Extracted, JournalEntry}
\* the separators of re.split(r"[:\n(bullet)\-]", theme), line 116; the one
\* character U+2022 is written "BULLET"
PartSeparators == {":", "\n", "BULLET", "-"}
\* len(clean_part) < 50, line 121
MaxPartLen == 50

\* lines 124-127 and 131-132: re.sub(r"[^\w\s-]+", "-", s.lower()).strip("-"),
\* then re.sub(r"-+", "-", ...)
CleanTheme(s) ==
  LET dashed == SubRuns(Lower(s), WordChars \cup SpaceChars \cup {"-"}, FALSE, <<"-">>)
  IN SubRuns(StripChars(dashed, {"-"}), {"-"}, TRUE, <<"-">>)

\* lines 128-129 and 133-134: append "#clean_theme" unless clean_theme is empty
TagIfAny(clean_theme) ==
  IF clean_theme # <<>> THEN << <<"#">> \o clean_theme >> ELSE <<>>

RECURSIVE PartTags(_, _)
\* lines 117-129: the tags of the parts of a re-split theme
PartTags(parts, i) ==
  IF i > Len(parts) THEN <<>>
  ELSE LET clean_part == Strip(parts[i])
           kept == /\ clean_part # <<>>
                   /\ Len(clean_part) < MaxPartLen
                   /\ ~ \E skip \in TagSkipPhrases : Contains(Lower(clean_part), skip)
       IN (IF kept THEN TagIfAny(CleanTheme(clean_part)) ELSE <<>>)
          \o PartTags(parts, i + 1)

\* lines 115-134: the tags one theme contributes
ThemeTags(theme) ==
  IF \E skip \in PreambleMarkers : Contains(Lower(theme), skip)
  THEN PartTags(SplitOn(theme, PartSeparators), 1)
  ELSE TagIfAny(CleanTheme(theme))

RECURSIVE TagsFrom(_, _)
TagsFrom(themes, i) ==
  IF i > Len(themes) THEN <<>>
  ELSE ThemeTags(themes[i]) \o TagsFrom(themes, i + 1)

\* generate_topic_tags(themes)
generate_topic_tags(themes) == IF themes = <<>> THEN <<>> ELSE TagsFrom(themes, 1)

(***************************************************************************)
(* Inputs of generate_topic_tags: every string of up to MaxThemeLen        *)
(* characters over TagAlphabet, bare or after a preamble marker, and lists *)
(* of up to MaxThemes of the named examples.                               *)
(***************************************************************************)
MaxThemeLen == 3
MaxThemes == 2
TagAlphabet == {"a", "B", "1", "_", " ", "-", ",", ":", "!"}

ShortStrings == UNION {[1..n -> TagAlphabet] : n \in 0..MaxThemeLen}

Friendship == <<"F", "r", "i", "e", "n", "d", "s", "h", "i", "p">>
KeyThemesWorkRest == KeyThemes \o <<":", " ", "W", "o", "r", "k", ",", " ", "R", "e", "s", "t">>
KeyThemesWorkDashRest == KeyThemes \o <<":", " ", "W", "o", "r", "k", "\n", "-", " ", "R", "e", "s", "t">>
WorkStress == <<"w", "o", "r", "k", " ", "s", "t", "r", "e", "s", "s">>
LongPart == KeyThemes \o <<":">> \o [i \in 1..MaxPartLen |-> "x"]

ExampleThemes == {Friendship, KeyThemesWorkRest, KeyThemesWorkDashRest, WorkStress, LongPart}

TagInputs ==
  {<<s>> : s \in ShortStrings}
  \cup {<<m \o s>> : m \in PreambleMarkers, s \in ShortStrings}
  \cup UNION {[1..n -> ExampleThemes] : n \in 0..MaxThemes}

(***************************************************************************)
(* Entry text.  An entry or a composite input is a sequence of segments:   *)
(* a run of n characters of running text (the text named id, without       *)
(* whitespace at its ends and without any marker), a run of n newlines, or *)
(* one of the fixed markers that the regular expressions of analysis.py    *)
(* look for.  The length of a marker is the length of its literal.         *)
(***************************************************************************)
MarkLen(kind) ==
  CASE kind = "bdhead" -> 15        \* "## (brain) Brain Dump"
    [] kind = "h2" -> 8             \* "## Notes", any other heading
    [] kind = "rule" -> 3           \* "---"
    [] kind = "memlinks" -> 17      \* "## (link) Memory Links"
    [] kind = "related" -> 20       \* "**Related entries:**"
    [] kind = "placeholder" -> 49   \* "*Your thoughts, experiences, and observations...*"
    [] kind = "errfile" -> 18       \* "Error reading file"
    [] kind = "errword" -> 5        \* "Error"
    [] kind = "rphead" -> 21        \* "## (thinking) Daily Reflection"
    [] kind = "bold" -> 14          \* "**Question 1**", any **...** on one line

Txt(id, n) == [kind |-> "text", id |-> id, n |-> n]
Nl(n) == [kind |-> "ws", id |-> "", n |-> n]
Mark(kind) == [kind |-> kind, id |-> "", n |-> MarkLen(kind)]

\* the heading of a day of a composite input, newline included
DayHead(kind, d) ==
  [kind |-> kind, id |-> d,
   n |-> CASE kind = "recenthead" -> 35         \* "## MOST RECENT ENTRY (2024-01-0d):"
           [] kind = "earlierhead" -> 31        \* "## Earlier entry (2024-01-0d):"
           [] kind = "earlierheadpad" -> 33]    \* "## Earlier entry ( 2024-01-0d ):"

RECURSIVE StrLen(_)
\* len(s)
StrLen(segs) == IF segs = <<>> THEN 0 ELSE Head(segs).n + StrLen(Tail(segs))

RECURSIVE Prefix(_, _)
\* s[:k]
Prefix(segs, k) ==
  IF segs = <<>> \/ k <= 0 THEN <<>>
  ELSE IF Head(segs).n <= k
       THEN <<Head(segs)>> \o Prefix(Tail(segs), k - Head(segs).n)
       ELSE <<[Head(segs) EXCEPT !.n = k]>>

\* s.strip(): text and markers carry no whitespace at their ends
StripSegs(segs) ==
  LET keep == {i \in 1..Len(segs) : segs[i].kind # "ws"}
  IN IF keep = {} THEN <<>>
     ELSE LET lo == CHOOSE i \in keep : \A j \in keep : i <= j
              hi == CHOOSE i \in keep : \A j \in keep : j <= i
          IN SubSeq(segs, lo, hi)

\* the index of the first segment of the kind, 0 when there is none
FirstOf(segs, kind) ==
  LET at == {i \in 1..Len(segs) : segs[i].kind = kind}
  IN IF at = {} THEN 0 ELSE CHOOSE i \in at : \A j \in at : i <= j

\* s.startswith(literal of the marker): "Error reading file" begins with "Error"
KindsBeginningWith(kind) ==
  IF kind = "errword" THEN {"errword", "errfile"} ELSE {kind}

StartsWithMark(segs, kind) ==
  segs # <<>> /\ segs[1].kind \in KindsBeginningWith(kind)

\* the lookahead (?=\n---|\n##|\Z) of the section patterns: markers that end
\* a section when a newline precedes them
SectionEnders == {"rule", "h2", "bdhead", "memlinks", "rphead",
                  "recenthead", "earlierhead", "earlierheadpad"}

\* _extract_brain_dump, analysis.py 17-34.  The heading matches when newlines
\* follow it; \s*\n+ takes the whole run of newlines after the heading, so
\* the capture runs to the first ender that has a newline before it and text
\* between the heading and it, or to the end of the text; it is stripped, the
\* placeholder sentence is removed and it is stripped again.
_extract_brain_dump(content) ==
  LET heads == {i \in 1..(Len(content) - 1) :
                  content[i].kind = "bdhead" /\ content[i + 1].kind = "ws"}
  IN IF heads = {} THEN <<>>
     ELSE LET h == CHOOSE i \in heads : \A j \in heads : i <= j
              ends == {j \in (h + 2)..Len(content) :
                         /\ content[j].kind \in SectionEnders
                         /\ content[j - 1].kind = "ws"
                         /\ \E k \in (h + 1)..(j - 2) : content[k].kind # "ws"}
              stop == IF ends = {} THEN Len(content) + 1
                      ELSE CHOOSE j \in ends : \A k \in ends : j <= k
              brain_dump == StripSegs(SubSeq(content, h + 2, stop - 1))
          IN StripSegs(SelectSeq(brain_dump, LAMBDA g : g.kind # "placeholder"))

\* _extract_reflection_prompts, analysis.py 36-49: the section under the
\* reflection heading, captured as the Brain Dump section is; it is stripped
\* and every **...** is removed from it
_extract_reflection_prompts(content) ==
  LET heads == {i \in 1..(Len(content) - 1) :
                  content[i].kind = "rphead" /\ content[i + 1].kind = "ws"}
  IN IF heads = {} THEN <<>>
     ELSE LET h == CHOOSE i \in heads : \A j \in heads : i <= j
              ends == {j \in (h + 2)..Len(content) :
                         /\ content[j].kind \in SectionEnders
                         /\ content[j - 1].kind = "ws"
                         /\ \E k \in (h + 1)..(j - 2) : content[k].kind # "ws"}
              stop == IF ends = {} THEN Len(content) + 1
                      ELSE CHOOSE j \in ends : \A k \in ends : j <= k
              prompts == StripSegs(SubSeq(content, h + 2, stop - 1))
          IN SelectSeq(prompts, LAMBDA g : g.kind # "bold")

\* re.sub(r"<marker>.*$", "", s, flags=re.DOTALL): cut from the marker on
CutFrom(segs, kind) ==
  IF FirstOf(segs, kind) = 0 THEN segs ELSE SubSeq(segs, 1, FirstOf(segs, kind) - 1)

\* len(brain_dump) > 50, analysis.py 55
SubstantialLen == 50
\* len(analysis_content.strip()) < 20, analysis.py 67
MinAnalysisLen == 20

\* analysis.py 53-65: the text that theme extraction analyses
AnalysisContent(content) ==
  LET brain_dump == _extract_brain_dump(content)
  IN IF StrLen(brain_dump) > SubstantialLen THEN brain_dump
     ELSE CutFrom(CutFrom(content, "related"), "memlinks")

\* the length is tested before stripping
TooShortUnstripped(content) == StrLen(AnalysisContent(content)) < MinAnalysisLen

\* analysis.py 67-68
TooShort(content) == StrLen(StripSegs(AnalysisContent(content))) < MinAnalysisLen

(***************************************************************************)
(* Theme extraction and the theme cache (analysis.py 51-104)               *)
(***************************************************************************)
\* themes[:5], analysis.py 93
MaxThemeCount == 5

\* s[:k] of a list; a negative k counts from the end
Take(s, k) ==
  IF k >= 0 THEN SubSeq(s, 1, IF k < Len(s) THEN k ELSE Len(s))
  ELSE SubSeq(s, 1, Len(s) + k)

\* analysis.py 88-93: split the response on commas, strip and lowercase every
\* piece, drop the empty ones, keep the first five
ParseThemes(response_text) ==
  LET pieces == SplitOn(Strip(response_text), {","})
      stripped == [i \in 1..Len(pieces) |-> Strip(pieces[i])]
      themes == [i \in 1..Len(stripped) |-> Lower(stripped[i])]
  IN Take(SelectSeq(themes, LAMBDA t : t # <<>>), MaxThemeCount)

\* the failure of the request is not caught
OnGenerateFailureRaises == [raised |-> TRUE, themes |-> <<>>]

\* analysis.py 84-86: what extract_themes_and_topics does when the generation
\* request raises: it returns [] and raises nothing
OnGenerateFailure == [raised |-> FALSE, themes |-> <<>>]

\* hash(content[:100]), analysis.py 97: equal exactly when the first 100
\* characters are equal
HashedPrefixLen == 100
Hash(prefix) == prefix

\* the whole content is hashed
CacheKeyWhole(content, file_stem) ==
  <<file_stem, StrLen(content), Hash(content)>>

\* cache_key, analysis.py 97
CacheKey(content, file_stem) ==
  <<file_stem, StrLen(content), Hash(Prefix(content, HashedPrefixLen))>>

\* a lookup that never finds the key
CachedNever(cache, content, file_stem) == FALSE

\* cache_key in self._theme_cache, analysis.py 99
Cached(cache, content, file_stem) == CacheKey(content, file_stem) \in DOMAIN cache

\* the key is written only when it is not yet in the cache
CachePutIfAbsent(cache, content, file_stem, themes) ==
  [k \in DOMAIN cache \cup {CacheKey(content, file_stem)} |->
     IF k \in DOMAIN cache THEN cache[k] ELSE themes]

\* an empty ThemeSet is not written
CachePutNonEmpty(cache, content, file_stem, themes) ==
  IF themes = <<>> THEN cache
  ELSE [k \in DOMAIN cache \cup {CacheKey(content, file_stem)} |->
          IF k = CacheKey(content, file_stem) THEN themes ELSE cache[k]]

\* self._theme_cache[cache_key] = themes, analysis.py 103
CachePut(cache, content, file_stem, themes) ==
  [k \in DOMAIN cache \cup {CacheKey(content, file_stem)} |->
     IF k = CacheKey(content, file_stem) THEN themes ELSE cache[k]]

\* set(themes)
ToSet(themes) == {themes[i] : i \in 1..Len(themes)}

(***************************************************************************)
(* Similarity search (analysis.py 138-207)                                 *)
(***************************************************************************)
\* similarity = len(intersection) / len(union), kept as the exact fraction
Similarity(query_themes, entry_themes) ==
  <<Cardinality(query_themes \cap entry_themes),
    Cardinality(query_themes \cup entry_themes)>>

\* 0.08 = 8/100, analysis.py 188
ThresholdNum == 8
ThresholdDen == 100

\* the threshold is 0.8
AboveThresholdTenfold(sim) == sim[1] * ThresholdDen > 10 * ThresholdNum * sim[2]

\* the threshold is 1/8
AboveThresholdEighth(sim) == sim[1] * 8 > sim[2]

\* similarity > 0.08, analysis.py 188
AboveThreshold(sim) == sim[1] * ThresholdDen > ThresholdNum * sim[2]

\* x[0] > y[0] on the scores of two (similarity, stem) pairs
ScoreGreater(x, y) == x.score[1] * y.score[2] > y.score[1] * x.score[2]

RECURSIVE InsertDesc(_, _)
RECURSIVE InsertDescUnstable(_, _)
\* x goes in front of the elements whose score equals its own
InsertDescUnstable(sorted, x) ==
  IF sorted = <<>> THEN <<x>>
  ELSE IF ~ ScoreGreater(Head(sorted), x) THEN <<x>> \o sorted
  ELSE <<Head(sorted)>> \o InsertDescUnstable(Tail(sorted), x)

\* put x behind every element whose score is at least its own
InsertDesc(sorted, x) ==
  IF sorted = <<>> THEN <<x>>
  ELSE IF ScoreGreater(x, Head(sorted)) THEN <<x>> \o sorted
  ELSE <<Head(sorted)>> \o InsertDesc(Tail(sorted), x)

RECURSIVE SortScoresFrom(_, _, _)
SortScoresFrom(scores, i, acc) ==
  IF i > Len(scores) THEN acc
  ELSE SortScoresFrom(scores, i + 1, InsertDesc(acc, scores[i]))

\* similarity_scores.sort(reverse=True, key=lambda x: x[0]), analysis.py 196:
\* list.sort is stable, also with reverse=True
SortScores(scores) == SortScoresFrom(scores, 1, <<>>)

\* f"[[{stem}]]", analysis.py 198
Backlink(stem) == <<"[[", stem, "]]">>

\* analysis.py 196-198
Backlinks(scores, limit) ==
  LET top == Take(SortScores(scores), limit)
  IN [i \in 1..Len(top) |-> Backlink(top[i].stem)]

(***************************************************************************)
(* The Entry Store and the generation collaborator                         *)
(***************************************************************************)
NoStem == ""      \* exclude_date = None
NoArg == [content |-> <<>>, stem |-> NoStem]
NoResult == [kind |-> "none"]

\* an entry whose Brain Dump section is substantial
Entry1 == <<Mark("bdhead"), Nl(2), Txt("p", 60), Nl(1), Mark("rule"), Nl(1),
            Mark("related"), Txt("q", 30)>>
\* an entry whose text begins with the word "Error"
Entry2 == <<Mark("errword"), Txt("r", 40)>>
\* an entry without sections
Entry3 == <<Txt("s", 30)>>

\* entry_manager.get_all_entries(): (date, path) pairs in storage order
Store == <<[stem |-> "d1", date |-> 3, content |-> Entry1],
           [stem |-> "d2", date |-> 1, content |-> Entry2],
           [stem |-> "d3", date |-> 2, content |-> Entry3]>>

StoreStems == {Store[i].stem : i \in 1..Len(Store)}

\* entry_manager.read_entry(path): the text of the entry, or a string that
\* begins with "Error reading file" when the read fails
read_entry(entry, unreadableStems) ==
  IF entry.stem \in unreadableStems
  THEN <<Mark("errfile"), Txt(entry.stem, 10)>>
  ELSE entry.content

\* what ollama_client.generate may answer to a theme request
RespBCD == <<" ", "B", ",", "c", ",", ",", "d", "\n">>
RespX == <<"x">>
RespSix == <<"a", ",", " ", "b", ",", "c", ",", "d", ",", "e", ",", "f">>
RespNone == <<" ", ",", " ">>
Responses == {RespBCD, RespX, RespSix, RespNone}

(***************************************************************************)
(* The operations.  One operation runs at a time (a single logical         *)
(* caller); an operation is suspended only while its generation request    *)
(* is outstanding.                                                         *)
(***************************************************************************)
MaxOps == 2

EmptyMap == [k \in {} |-> <<>>]

MapPut(map, key, value) ==
  [k \in DOMAIN map \cup {key} |-> IF k = key THEN value ELSE map[k]]

PureIdle == fpc = "unused" /\ fin = <<>> /\ fout = <<>>

ScanIdle ==
  /\ entries = <<>>
  /\ idx = 0
  /\ exclude_date = NoStem
  /\ max_related = 0
  /\ current_themes = {}
  /\ similarity_scores = <<>>
  /\ entry_data = <<>>
  /\ all_themes = <<>>

HistIdle ==
  /\ reads = <<>>
  /\ skipped = {}
  /\ failed = {}
  /\ contributed = EmptyMap

\* the sets of files that cannot be read: none, one, all
UnreadableSets == {{}, {"d3"}, StoreStems}

\* AnalysisEngine.__init__ (analysis.py 14-15) and an Entry Store in which
\* some of the files may be unreadable
Init ==
  /\ PureIdle
  /\ theme_cache = EmptyMap
  /\ unreadable \in UnreadableSets
  /\ nops = 0
  /\ op = "none"
  /\ pc = "idle"
  /\ arg = NoArg
  /\ ret = <<>>
  /\ served = "none"
  /\ nreq = 0
  /\ ScanIdle
  /\ result = NoResult
  /\ HistIdle
  /\ outstanding = 0
  /\ stored = <<>>

\* ---- get_themes_cached and extract_themes_and_topics ----

\* the request is started and the caller goes on without its answer
AfterIssueDetached == "ret"

\* response_text = await ollama_client.generate(...), analysis.py 79-82: the
\* caller is suspended until the request has answered or raised
AfterIssue == "await"

\* analysis.py 99-100: the key is in the cache
GetThemesCachedHit ==
  /\ pc = "call"
  /\ Cached(theme_cache, arg.content, arg.stem)
  /\ ret' = theme_cache[CacheKey(arg.content, arg.stem)]
  /\ served' = "hit"
  /\ pc' = "ret"
  /\ UNCHANGED <<fvars, theme_cache, unreadable, nops, op, arg, nreq, scanvars,
                 result, histvars,
                 outstanding, stored>>

\* analysis.py 102-104 with 53-68: a miss on a text too short to analyse
ExtractTooShort ==
  /\ pc = "call"
  /\ ~ Cached(theme_cache, arg.content, arg.stem)
  /\ TooShort(arg.content)
  /\ theme_cache' = CachePut(theme_cache, arg.content, arg.stem, <<>>)
  /\ ret' = <<>>
  /\ served' = "short"
  /\ pc' = "ret"
  /\ UNCHANGED <<fvars, unreadable, nops, op, arg, nreq, scanvars, result, histvars,
                 outstanding, stored>>

\* analysis.py 102 with 70-82: a miss; the generation request is issued and
\* the caller is suspended
IssueRequest ==
  /\ pc = "call"
  /\ ~ Cached(theme_cache, arg.content, arg.stem)
  /\ ~ TooShort(arg.content)
  /\ nreq' = nreq + 1
  /\ outstanding' = outstanding + 1
  /\ pc' = AfterIssue
  /\ UNCHANGED <<fvars, theme_cache, unreadable, nops, op, arg, ret, served,
                 scanvars, result, histvars,
                 stored>>

\* analysis.py 83, 88-93, 103-104: the request answers
GenerateReturns ==
  /\ pc = "await"
  /\ \E response_text \in Responses :
       /\ theme_cache' = CachePut(theme_cache, arg.content, arg.stem,
                                  ParseThemes(response_text))
       /\ ret' = ParseThemes(response_text)
  /\ outstanding' = outstanding - 1
  /\ served' = "generated"
  /\ pc' = "ret"
  /\ UNCHANGED <<fvars, unreadable, nops, op, arg, nreq, scanvars, result, histvars,
                 stored>>

\* analysis.py 84-86, 103-104: the request raises.  A raise that
\* extract_themes_and_topics did not catch would leave get_themes_cached and
\* the operation that called it.
GenerateFails ==
  /\ pc = "await"
  /\ failed' = failed \cup {arg.stem}
  /\ outstanding' = outstanding - 1
  /\ IF OnGenerateFailure.raised
     THEN /\ pc' = "raised"
          /\ UNCHANGED <<theme_cache, ret, served>>
     ELSE /\ theme_cache' = CachePut(theme_cache, arg.content, arg.stem,
                                     OnGenerateFailure.themes)
          /\ ret' = OnGenerateFailure.themes
          /\ served' = "failed"
          /\ pc' = "ret"
  /\ UNCHANGED <<fvars, unreadable, nops, op, arg, nreq, scanvars, result,
                 reads, skipped, contributed,
                 stored>>

\* a direct call get_themes_cached(content, file_stem)
DirectContents == {Entry1, Entry3, <<Nl(3), Txt("s", 19), Nl(30)>>,
                   <<Txt("s", 5), Mark("related"), Txt("q", 80)>>}
DirectStems == {"d1", "d3"}

StartGetThemes ==
  /\ pc = "idle"
  /\ nops < MaxOps
  /\ \E content \in DirectContents, file_stem \in DirectStems :
       arg' = [content |-> content, stem |-> file_stem]
  /\ op' = "gtc"
  /\ pc' = "call"
  /\ nops' = nops + 1
  /\ UNCHANGED <<fvars, theme_cache, unreadable, ret, served, nreq, scanvars,
                 result, histvars,
                 outstanding, stored>>

GetThemesDone ==
  /\ op = "gtc"
  /\ pc = "ret"
  /\ result' = [kind |-> "themes", value |-> ret]
  /\ pc' = "done"
  /\ UNCHANGED <<fvars, theme_cache, unreadable, nops, op, arg, ret, served, nreq,
                 scanvars, histvars,
                 outstanding, stored>>

\* ---- find_related_entries (analysis.py 138-207) ----

\* entry_content.startswith("Error reading file"), analysis.py 167
SearchSkips(entry_content) == StartsWithMark(entry_content, "errfile")

\* the query texts, with the exclude_date each is searched with
Query25 == <<Txt("t", 25)>>
Query19 == <<Txt("t", 19)>>
Queries == {[content |-> Entry1, exclude |-> "d1"],
            [content |-> Query25, exclude |-> NoStem],
            [content |-> Query19, exclude |-> NoStem]}
MaxRelatedValues == {2, 6}

\* analysis.py 145-147: the themes of the query are asked for
StartFindRelated ==
  /\ pc = "idle"
  /\ nops < MaxOps
  /\ \E q \in Queries, mr \in MaxRelatedValues :
       /\ arg' = [content |-> q.content,
                  stem |-> IF q.exclude # NoStem THEN q.exclude ELSE "current"]
       /\ exclude_date' = q.exclude
       /\ max_related' = mr
  /\ op' = "fre"
  /\ pc' = "call"
  /\ idx' = 0
  /\ nops' = nops + 1
  /\ UNCHANGED <<fvars, theme_cache, unreadable, ret, served, nreq, entries,
                 current_themes, similarity_scores, entry_data, all_themes,
                 result, histvars,
                 outstanding, stored>>

\* analysis.py 145-159: no themes for the query ends the search, otherwise
\* the corpus is listed
FindRelatedAfterQuery ==
  /\ op = "fre"
  /\ pc = "ret"
  /\ idx = 0
  /\ current_themes' = ToSet(ret)
  /\ IF ToSet(ret) = {}
     THEN /\ result' = [kind |-> "backlinks", value |-> <<>>]
          /\ pc' = "done"
          /\ UNCHANGED <<entries, idx>>
     ELSE /\ entries' = Store
          /\ idx' = 1
          /\ pc' = "loop"
          /\ UNCHANGED result
  /\ UNCHANGED <<fvars, theme_cache, unreadable, nops, op, arg, ret, served, nreq,
                 exclude_date, max_related, similarity_scores, entry_data,
                 all_themes, histvars,
                 outstanding, stored>>

\* analysis.py 161-173: the next entry is skipped, or read and its themes
\* asked for
FindRelatedIterate ==
  /\ op = "fre"
  /\ pc = "loop"
  /\ idx <= Len(entries)
  /\ LET entry == entries[idx]
         entry_content == read_entry(entry, unreadable)
     IN IF exclude_date # NoStem /\ entry.stem = exclude_date
        THEN /\ idx' = idx + 1
             /\ UNCHANGED <<pc, arg, reads, skipped>>
        ELSE /\ reads' = Append(reads, entry.stem)
             /\ IF SearchSkips(entry_content)
                THEN /\ skipped' = skipped \cup {entry.stem}
                     /\ idx' = idx + 1
                     /\ UNCHANGED <<pc, arg>>
                ELSE /\ arg' = [content |-> entry_content, stem |-> entry.stem]
                     /\ pc' = "call"
                     /\ UNCHANGED <<idx, skipped>>
  /\ UNCHANGED <<fvars, theme_cache, unreadable, nops, op, ret, served, nreq,
                 entries, exclude_date, max_related, current_themes,
                 similarity_scores, entry_data, all_themes, result, failed,
                 contributed,
                 outstanding, stored>>

\* analysis.py 172-194: the themes of the entry are compared with the query's
FindRelatedAfterEntry ==
  /\ op = "fre"
  /\ pc = "ret"
  /\ idx >= 1
  /\ LET entry_themes == ToSet(ret)
         similarity == Similarity(current_themes, entry_themes)
     IN similarity_scores' =
          IF entry_themes # {} /\ AboveThreshold(similarity)
          THEN Append(similarity_scores,
                      [score |-> similarity, stem |-> entries[idx].stem])
          ELSE similarity_scores
  /\ contributed' = MapPut(contributed, entries[idx].stem, ret)
  /\ idx' = idx + 1
  /\ pc' = "loop"
  /\ UNCHANGED <<fvars, theme_cache, unreadable, nops, op, arg, ret, served, nreq,
                 entries, exclude_date, max_related, current_themes, entry_data,
                 all_themes, result, reads, skipped, failed,
                 outstanding, stored>>

\* analysis.py 196-207
FindRelatedFinish ==
  /\ op = "fre"
  /\ pc = "loop"
  /\ idx > Len(entries)
  /\ result' = [kind |-> "backlinks",
                value |-> Backlinks(similarity_scores, max_related)]
  /\ pc' = "done"
  /\ UNCHANGED <<fvars, theme_cache, unreadable, nops, op, arg, ret, served, nreq,
                 scanvars, histvars,
                 outstanding, stored>>

\* ---- generate_memory_trace (memory_trace.py 10-92) ----

RECURSIVE InsertByDate(_, _)
InsertByDate(sorted, x) ==
  IF sorted = <<>> THEN <<x>>
  ELSE IF x.date < Head(sorted).date THEN <<x>> \o sorted
  ELSE <<Head(sorted)>> \o InsertByDate(Tail(sorted), x)

RECURSIVE SortByDateFrom(_, _, _)
SortByDateFrom(es, i, acc) ==
  IF i > Len(es) THEN acc ELSE SortByDateFrom(es, i + 1, InsertByDate(acc, es[i]))

\* sorted(entries, key=lambda x: x[0]), memory_trace.py 17
SortByDate(es) == SortByDateFrom(es, 1, <<>>)

\* no read is taken for a failure
TraceSkipsNever(content) == FALSE

\* content.startswith("Error"), memory_trace.py 25
TraceSkips(content) == StartsWithMark(content, "errword")

\* memory_trace.py 39
NoValidEntries == "No valid entries found to analyze."

\* memory_trace.py 55-86: the sections of the report, in the order computed
ReportSections == <<"timeline", "core_themes", "patterns", "relationships",
                    "growth", "wisdom", "moments", "emotional">>

\* the lists generate_memory_trace is called with
TraceInputs == {<<>>, Store}

\* memory_trace.py 17-22
StartMemoryTrace ==
  /\ pc = "idle"
  /\ nops < MaxOps
  /\ \E es \in TraceInputs : entries' = SortByDate(es)
  /\ op' = "mt"
  /\ pc' = "loop"
  /\ idx' = 1
  /\ nops' = nops + 1
  /\ UNCHANGED <<fvars, theme_cache, unreadable, arg, ret, served, nreq,
                 exclude_date, max_related, current_themes, similarity_scores,
                 entry_data, all_themes, result, histvars,
                 outstanding, stored>>

\* memory_trace.py 23-28: the next entry is read and skipped, or its themes
\* asked for
MemoryTraceIterate ==
  /\ op = "mt"
  /\ pc = "loop"
  /\ idx <= Len(entries)
  /\ LET entry == entries[idx]
         content == read_entry(entry, unreadable)
     IN /\ reads' = Append(reads, entry.stem)
        /\ IF TraceSkips(content)
           THEN /\ skipped' = skipped \cup {entry.stem}
                /\ idx' = idx + 1
                /\ UNCHANGED <<pc, arg>>
           ELSE /\ arg' = [content |-> content, stem |-> entry.stem]
                /\ pc' = "call"
                /\ UNCHANGED <<idx, skipped>>
  /\ UNCHANGED <<fvars, theme_cache, unreadable, nops, op, ret, served, nreq,
                 entries, exclude_date, max_related, current_themes,
                 similarity_scores, entry_data, all_themes, result, failed,
                 contributed,
                 outstanding, stored>>

\* memory_trace.py 28-36
MemoryTraceAfterEntry ==
  /\ op = "mt"
  /\ pc = "ret"
  /\ entry_data' = Append(entry_data, [date |-> entries[idx].date,
                                       stem |-> entries[idx].stem,
                                       content |-> arg.content,
                                       themes |-> ret])
  /\ all_themes' = all_themes \o ret
  /\ contributed' = MapPut(contributed, entries[idx].stem, ret)
  /\ idx' = idx + 1
  /\ pc' = "loop"
  /\ UNCHANGED <<fvars, theme_cache, unreadable, nops, op, arg, ret, served, nreq,
                 entries, exclude_date, max_related, current_themes,
                 similarity_scores, result, reads, skipped, failed,
                 outstanding, stored>>

\* memory_trace.py 38-92
MemoryTraceFinish ==
  /\ op = "mt"
  /\ pc = "loop"
  /\ idx > Len(entries)
  /\ result' = IF entry_data = <<>>
               THEN [kind |-> "message", value |-> NoValidEntries, sections |-> <<>>]
               ELSE [kind |-> "report", value |-> Len(entry_data),
                     sections |-> ReportSections]
  /\ pc' = "done"
  /\ UNCHANGED <<fvars, theme_cache, unreadable, nops, op, arg, ret, served, nreq,
                 scanvars, histvars,
                 outstanding, stored>>

\* the operation has returned; everything but the cache is discarded
Return ==
  /\ pc = "done"
  /\ op' = "none"
  /\ pc' = "idle"
  /\ arg' = NoArg
  /\ ret' = <<>>
  /\ served' = "none"
  /\ result' = NoResult
  /\ entries' = <<>>
  /\ idx' = 0
  /\ exclude_date' = NoStem
  /\ max_related' = 0
  /\ current_themes' = {}
  /\ similarity_scores' = <<>>
  /\ entry_data' = <<>>
  /\ all_themes' = <<>>
  /\ reads' = <<>>
  /\ skipped' = {}
  /\ failed' = {}
  /\ contributed' = EmptyMap
  /\ UNCHANGED <<fvars, theme_cache, unreadable, nops, nreq,
                 outstanding, stored>>

Next ==
  \/ StartGetThemes
  \/ GetThemesCachedHit
  \/ ExtractTooShort
  \/ IssueRequest
  \/ GenerateReturns
  \/ GenerateFails
  \/ GetThemesDone
  \/ StartFindRelated
  \/ FindRelatedAfterQuery
  \/ FindRelatedIterate
  \/ FindRelatedAfterEntry
  \/ FindRelatedFinish
  \/ StartMemoryTrace
  \/ MemoryTraceIterate
  \/ MemoryTraceAfterEntry
  \/ MemoryTraceFinish
  \/ Return

Spec == Init /\ [][Next]_vars

(***************************************************************************)
(* generate_reflection_prompts: the date map and the parsing of the        *)
(* response (analysis.py 222-240, 359-395).  A composite input carries one *)
(* heading per day, "## MOST RECENT ENTRY (<date>):" or                    *)
(* "## Earlier entry (<date>):"; the heading segment of the date           *)
(* 2024-01-0d has the id d.  A response is a sequence of tokens: single    *)
(* characters, the word "Day ", a date, or one of the phrases the parser   *)
(* looks for.                                                              *)
(***************************************************************************)
DayHeadKinds == {"recenthead", "earlierhead", "earlierheadpad"}

\* group 1 of entry_pattern: the text between the parentheses of a heading;
\* the padded heading is written "( 2024-01-0d )"
HeadingDate(seg) ==
  IF seg.kind = "earlierheadpad" THEN <<" ", "2024-01-0", seg.id, " ">>
  ELSE <<"2024-01-0", seg.id>>

\* entry_pattern.findall(recent_content), analysis.py 226-227: one
\* (date_str, content) pair per heading, the content running to the next
\* heading or to "$".  Without re.MULTILINE "$" also matches before a newline
\* that is the last character, and the lazy content stops there.
EntryMatches(recent_content) ==
  LET heads == {i \in 1..Len(recent_content) : recent_content[i].kind \in DayHeadKinds}
      nextHead(i) == IF \E j \in heads : j > i
                     THEN CHOOSE j \in heads : j > i /\ \A k \in heads : k > i => j <= k
                     ELSE Len(recent_content) + 1
      ordered == SelectSeq([i \in 1..Len(recent_content) |-> i], LAMBDA i : i \in heads)
      BeforeDollar(segs) ==
        IF segs # <<>> /\ segs[Len(segs)].kind = "ws"
        THEN IF segs[Len(segs)].n = 1 THEN SubSeq(segs, 1, Len(segs) - 1)
             ELSE [segs EXCEPT ![Len(segs)].n = @ - 1]
        ELSE segs
  IN [m \in 1..Len(ordered) |->
        [date_str |-> HeadingDate(recent_content[ordered[m]]),
         content |-> IF nextHead(ordered[m]) > Len(recent_content)
                     THEN BeforeDollar(SubSeq(recent_content, ordered[m] + 1,
                                              Len(recent_content)))
                     ELSE SubSeq(recent_content, ordered[m] + 1,
                                 nextHead(ordered[m]) - 1)]]

DigitChars == <<"1", "2", "3", "4", "5", "6", "7", "8", "9">>

\* "Day 1" and f"Day {len(entries)}", analysis.py 236-238
DayLabel(n) == <<"Day ", DigitChars[n]>>

\* date_map, analysis.py 229-238: label -> date_str.strip()
DateMap(entry_matches) ==
  [label \in {DayLabel(n) : n \in 1..Len(entry_matches)} |->
     LET n == CHOOSE k \in 1..Len(entry_matches) : DayLabel(k) = label
     IN Strip(entry_matches[n].date_str)]

\* the list of line 385
DayRefs == <<DayLabel(1), DayLabel(2), DayLabel(3), DayLabel(4), DayLabel(5),
             DayLabel(6), DayLabel(7)>>

\* the labels are replaced without their brackets
CitationTokenBare(day_ref) == day_ref

\* f"[{day_ref}]", analysis.py 388
CitationToken(day_ref) == <<"[">> \o day_ref \o <<"]">>

\* f"[[{date_str}]]", analysis.py 388
CitationLink(date_str) == <<"[", "[">> \o date_str \o <<"]", "]">>

RECURSIVE Replace(_, _, _)
\* s.replace(old, new): every occurrence, left to right, without overlap
Replace(s, old, new) ==
  IF Len(s) < Len(old) THEN s
  ELSE IF SubSeq(s, 1, Len(old)) = old
       THEN new \o Replace(SubSeq(s, Len(old) + 1, Len(s)), old, new)
       ELSE <<Head(s)>> \o Replace(Tail(s), old, new)

RECURSIVE RewriteFrom(_, _, _)
\* analysis.py 385-389: the loop over the seven labels
RewriteFrom(clean_prompt, date_map, i) ==
  IF i > Len(DayRefs) THEN clean_prompt
  ELSE IF Contains(clean_prompt, DayRefs[i]) /\ DayRefs[i] \in DOMAIN date_map
       THEN RewriteFrom(Replace(clean_prompt, CitationToken(DayRefs[i]),
                                CitationLink(date_map[DayRefs[i]])),
                        date_map, i + 1)
       ELSE RewriteFrom(clean_prompt, date_map, i + 1)

RewriteCitations(clean_prompt, date_map) == RewriteFrom(clean_prompt, date_map, 1)

\* skip_phrases, analysis.py 365-373
PromptSkipPhrases == {<<"unresolved">>, <<"worth exploring">>, <<"here are">>,
                      <<"*", "*">>, <<"topics:">>, <<"questions:">>,
                      <<"output format">>}

\* str.lower() on a token
LowerToken(t) == IF t = "Day " THEN "day " ELSE LowerChar(t)
LowerTokens(s) == [i \in 1..Len(s) |-> LowerToken(s[i])]

\* the number of characters of a token
TokenLen(t) ==
  CASE t = "Day " -> 4
    [] t = "2024-01-0" -> 9
    [] t = "unresolved" -> 10
    [] t = "worth exploring" -> 15
    [] t = "here are" -> 8
    [] t = "topics:" -> 7
    [] t = "questions:" -> 10
    [] t = "output format" -> 13
    [] t = "<think>" -> 7
    [] t = "</think>" -> 8
    [] OTHER -> 1

RECURSIVE TokensLen(_)
\* len(s)
TokensLen(s) == IF s = <<>> THEN 0 ELSE TokenLen(Head(s)) + TokensLen(Tail(s))

RECURSIVE RemoveThink(_)
\* re.sub(r"<think>.*?</think>", "", response_text, flags=re.DOTALL),
\* analysis.py 361-363
RemoveThink(s) ==
  LET opens == {i \in 1..Len(s) : s[i] = "<think>" /\ \E j \in (i + 1)..Len(s) : s[j] = "</think>"}
  IN IF opens = {} THEN s
     ELSE LET o == CHOOSE i \in opens : \A j \in opens : i <= j
              c == CHOOSE j \in (o + 1)..Len(s) :
                     s[j] = "</think>" /\ \A k \in (o + 1)..(j - 1) : s[k] # "</think>"
          IN SubSeq(s, 1, o - 1) \o RemoveThink(SubSeq(s, c + 1, Len(s)))

\* re.sub(r"^[\d.\-\s]+", "", line), analysis.py 381
DropEnumerator(line) ==
  LET enum == Digits \cup {".", "-"} \cup SpaceChars
      rest == {i \in 1..Len(line) : line[i] \notin enum}
  IN IF rest = {} THEN <<>>
     ELSE SubSeq(line, CHOOSE i \in rest : \A j \in rest : i <= j, Len(line))

\* len(clean_prompt) > 20, analysis.py 383
MinPromptLen == 20

\* analysis.py 376-384: the clean prompt of a line that is kept, as a list of
\* one element, or the empty list
KeptPrompt(rawLine) ==
  LET line == Strip(rawLine)
  IN IF line = <<>> \/ \E skip \in PromptSkipPhrases : Contains(LowerTokens(line), skip)
     THEN <<>>
     ELSE IF line[1] \in Digits \/ line[1] = "-"
          THEN LET clean_prompt == Strip(DropEnumerator(line))
               IN IF /\ clean_prompt # <<>>
                     /\ (EndsWith(clean_prompt, <<"?">>) \/ TokensLen(clean_prompt) > MinPromptLen)
                  THEN <<clean_prompt>>
                  ELSE <<>>
          ELSE <<>>

RECURSIVE KeptPrompts(_, _)
KeptPrompts(lines, i) ==
  IF i > Len(lines) THEN <<>> ELSE KeptPrompt(lines[i]) \o KeptPrompts(lines, i + 1)

\* len(recent_content.strip()) < 20, analysis.py 222
MinRecentLen == 20

\* analysis.py 222-240 and 359-395 for a response the collaborator gave:
\* clean holds the prompts as they are kept at line 384, prompts the list
\* that is returned
ParsePrompts(recent_content, count, response_text) ==
  IF StrLen(StripSegs(recent_content)) < MinRecentLen
  THEN [clean |-> <<>>, prompts |-> <<>>]
  ELSE LET date_map == DateMap(EntryMatches(recent_content))
           kept == KeptPrompts(SplitOn(RemoveThink(response_text), {"\n"}), 1)
       IN [clean |-> Take(kept, count),
           prompts |-> Take([i \in 1..Len(kept) |-> RewriteCitations(kept[i], date_map)],
                            count)]

(***************************************************************************)
(* generate_reflection_prompts: the analysis content (analysis.py 232-296).*)
(* It is a sequence of parts: "plain" for an input without day headings;   *)
(* else "primary", and for an input of several days "history_head", one    *)
(* "context" part per earlier day and, when an earlier day has prior       *)
(* prompts, "prompts_head" and one "day_prompts" part per such day.  The   *)
(* parts are the pieces of the f-strings of lines 262-291, in their order. *)
(***************************************************************************)
\* the content is always sent whole
DayContentWhole(entry) == entry

\* brain_dump if len(brain_dump) > 50 else entry, analysis.py 243, 253, 295
DayContent(entry) ==
  IF StrLen(_extract_brain_dump(entry)) > SubstantialLen
  THEN _extract_brain_dump(entry)
  ELSE entry

\* every day is taken for an earlier day, the first included
EarlierDaysFromFirst(day_entries) == [j \in 1..Len(day_entries) |-> j]

\* enumerate(entries[1:], 2), analysis.py 251: the days after the first
EarlierDays(day_entries) == [j \in 1..(Len(day_entries) - 1) |-> j + 1]

\* analysis_content, analysis.py 232-296; priority_label is that of lines
\* 255-260
ComposeAnalysis(recent_content) ==
  LET Part(part, day, label, text) ==
        [part |-> part, day |-> day, label |-> label, text |-> text]
      priority_label(i) ==
        CASE i = 2 -> <<"SECONDARY PRIORITY">>
          [] i = 3 -> <<"TERTIARY PRIORITY">>
          [] OTHER -> <<"Day ", DigitChars[i], " context">>
      entry_matches == EntryMatches(recent_content)
      day_entries == [m \in 1..Len(entry_matches) |-> entry_matches[m].content]
  IN IF day_entries = <<>>
     THEN <<Part("plain", 0, <<>>, DayContent(recent_content))>>
     ELSE LET primary == Part("primary", 1, <<"PRIMARY FOCUS">>, DayContent(day_entries[1]))
              days == EarlierDays(day_entries)
              context_parts ==
                [j \in 1..Len(days) |->
                   Part("context", days[j], priority_label(days[j]),
                        DayContent(day_entries[days[j]]))]
              with_prompts ==
                SelectSeq(days, LAMBDA i : _extract_reflection_prompts(day_entries[i]) # <<>>)
              prompt_parts ==
                [j \in 1..Len(with_prompts) |->
                   Part("day_prompts", with_prompts[j], <<>>,
                        _extract_reflection_prompts(day_entries[with_prompts[j]]))]
          IN IF Len(day_entries) > 1
             THEN <<primary, Part("history_head", 0, <<>>, <<>>)>> \o context_parts
                  \o (IF prompt_parts # <<>>
                      THEN <<Part("prompts_head", 0, <<>>, <<>>)>> \o prompt_parts
                      ELSE <<>>)
             ELSE <<primary>>

(***************************************************************************)
(* extract_todos: the parsing of the response (analysis.py 442-461)        *)
(***************************************************************************)
\* len(clean_todo) > 3, analysis.py 456
MinTodoLen == 3
\* len(content.strip()) < 20, analysis.py 402
MinTodoContentLen == 20

\* analysis.py 442-461: no todo when the response holds "no action items"
\* (442); else one todo per line that holds no skip phrase (448), begins
\* with a bullet (454; the one character U+2022 is written "BULLET") and,
\* its leading bullets and spaces dropped (455), is longer than 3
ParseTodos(response_text) ==
  LET sentinel == <<"n", "o", " ", "a", "c", "t", "i", "o", "n", " ", "i", "t",
                    "e", "m", "s">>
      skip_phrases == {
        <<"a", "c", "t", "i", "o", "n", " ", "i", "t", "e", "m", "s", ":">>,
        <<"t", "a", "s", "k", "s", ":">>,
        <<"t", "o", "d", "o", "s", ":">>,
        <<"h", "e", "r", "e", " ", "a", "r", "e">>}
      bullets == {"-", "*", "BULLET"}
      DropBullets(line) ==
        LET rest == {i \in 1..Len(line) : line[i] \notin bullets \cup SpaceChars}
        IN IF rest = {} THEN <<>>
           ELSE SubSeq(line, CHOOSE i \in rest : \A j \in rest : i <= j, Len(line))
      KeptTodo(rawLine) ==
        LET line == Strip(rawLine)
        IN IF \E skip \in skip_phrases : Contains(Lower(line), skip) THEN <<>>
           ELSE IF line # <<>> /\ line[1] \in bullets
                THEN LET clean_todo == Strip(DropBullets(line))
                     IN IF Len(clean_todo) > MinTodoLen THEN <<clean_todo>> ELSE <<>>
                ELSE <<>>
      lines == SplitOn(response_text, {"\n"})
      RECURSIVE KeptTodos(_)
      KeptTodos(i) ==
        IF i > Len(lines) THEN <<>> ELSE KeptTodo(lines[i]) \o KeptTodos(i + 1)
  IN IF Contains(Lower(response_text), sentinel) THEN <<>> ELSE KeptTodos(1)

(***************************************************************************)
(* Calls of the pure operations.  The engine stays as constructed.         *)
(***************************************************************************)
MainIdle ==
  /\ theme_cache = EmptyMap
  /\ unreadable = {}
  /\ nops = 0
  /\ op = "none"
  /\ pc = "idle"
  /\ arg = NoArg
  /\ ret = <<>>
  /\ served = "none"
  /\ nreq = 0
  /\ ScanIdle
  /\ result = NoResult
  /\ HistIdle
  /\ outstanding = 0
  /\ stored = <<>>

TagsInit ==
  /\ fpc = "tags_in"
  /\ fin \in TagInputs
  /\ fout = <<>>
  /\ MainIdle

\* one call of generate_topic_tags
GenerateTopicTags ==
  /\ fpc = "tags_in"
  /\ fout' = generate_topic_tags(fin)
  /\ fpc' = "tags_out"
  /\ UNCHANGED <<fin, mvars>>

SpecTags == TagsInit /\ [][GenerateTopicTags]_vars

\* the similarity scores a search may have collected: up to MaxScores pairs,
\* the stems in corpus order
MaxScores == 3
RankStems == <<"X", "Y", "Z", "V", "W">>
RankScores == {<<5, 10>>, <<2, 10>>, <<9, 10>>, <<1, 2>>}
RankLists ==
  UNION {{[i \in 1..n |-> [score |-> f[i], stem |-> RankStems[i]]] :
            f \in [1..n -> RankScores]} : n \in 0..MaxScores}

RankInit ==
  /\ fpc = "rank_in"
  /\ fin \in {[scores |-> l, max_related |-> m] : l \in RankLists, m \in 0..(MaxScores + 1)}
  /\ fout = <<>>
  /\ MainIdle

\* analysis.py 196-198 on one list of scores
RankBacklinks ==
  /\ fpc = "rank_in"
  /\ fout' = Backlinks(fin.scores, fin.max_related)
  /\ fpc' = "rank_out"
  /\ UNCHANGED <<fin, mvars>>

SpecRank == RankInit /\ [][RankBacklinks]_vars

\* the inputs of generate_reflection_prompts: a plain text or a composite of
\* up to MaxDays days, and a response of one numbered line made of up to
\* MaxChunks chunks, or one of the named responses
MaxDays == 8
MaxChunks == 3

Cite(n) == <<"[", "Day ", DigitChars[n], "]">>
Chunks == {Cite(1), Cite(2), Cite(4), Cite(8), <<"[", "Day ", "1", "0", "]">>,
           <<"Day ", "2">>, <<"[">>, <<"]">>, <<"x">>}

RECURSIVE Flatten(_)
Flatten(ss) == IF ss = <<>> THEN <<>> ELSE Head(ss) \o Flatten(Tail(ss))

LineBodies == {Flatten(cs) : cs \in UNION {[1..n -> Chunks] : n \in 0..MaxChunks}}
OneLineResponses ==
  {<<"1", ".", " ">> \o body \o suffix : body \in LineBodies, suffix \in {<<"?">>, <<>>}}

ThinkResponse ==
  <<"<think>">> \o Cite(1) \o <<"\n", "</think>", "1", ".", " ", "x">> \o Cite(1)
  \o <<"?", "\n", "-", " ">> \o Cite(2) \o <<"x", "?", " ", "\n", "2", ".", " ", "unresolved">>
  \o Cite(1) \o <<"?", "\n", "x">> \o Cite(1) \o <<"?", "\n", "3", ".", " ", "x", "\n",
  "4", ".", " ", "*", "*", "x", "?", "\n", "5", ".", "2", " ">> \o Cite(3) \o <<"?">>

Composite(k) ==
  IF k = 0 THEN <<Txt("t", 30)>>
  ELSE [i \in 1..(2 * k) |->
          IF i % 2 = 0 THEN Txt("t", 30)
          ELSE DayHead(IF i = 1 THEN "recenthead"
                       ELSE IF i = 3 THEN "earlierheadpad" ELSE "earlierhead",
                       DigitChars[(i + 1) \div 2])]

PromptInputs ==
  {[recent_content |-> Composite(k), count |-> 3, response_text |-> r] :
     k \in 0..MaxDays, r \in OneLineResponses}
  \cup {[recent_content |-> c, count |-> n, response_text |-> ThinkResponse] :
          c \in {Composite(0), Composite(2), Composite(3), <<Txt("t", 19)>>},
          n \in {1, 3}}

PromptsInit ==
  /\ fpc = "prompts_in"
  /\ fin \in PromptInputs
  /\ fout = <<>>
  /\ MainIdle

\* generate_reflection_prompts when the generation request answers
ReflectionPromptsAnswered ==
  /\ fpc = "prompts_in"
  /\ fout' = ParsePrompts(fin.recent_content, fin.count, fin.response_text)
  /\ fpc' = "prompts_out"
  /\ UNCHANGED <<fin, mvars>>

\* analysis.py 355-357: the generation request raises
ReflectionPromptsFailed ==
  /\ fpc = "prompts_in"
  /\ fout' = [clean |-> <<>>, prompts |-> <<>>]
  /\ fpc' = "prompts_failed"
  /\ UNCHANGED <<fin, mvars>>

PromptsNext == ReflectionPromptsAnswered \/ ReflectionPromptsFailed

SpecPrompts == PromptsInit /\ [][PromptsNext]_vars

(***************************************************************************)
(* The generation requests of one call of extract_themes_and_topics,       *)
(* generate_reflection_prompts or extract_todos.  fin is the call, fpc its *)
(* position ("start", "awaiting" while the request is outstanding,         *)
(* "returned"), and fout holds the requests it has sent to the generation  *)
(* collaborator, in order, the value it returned and whether a request of  *)
(* it raised.  A request is recorded with the values interpolated into its *)
(* instruction.                                                            *)
(***************************************************************************)
\* two attempts are made
RequestAttemptsTwo == 1 + 1

\* the try block is entered once: no loop surrounds it (analysis.py 77-86,
\* 347-357, 430-440)
RequestAttempts == 1

\* the early return of the call: analysis.py 67-68, 222-224, 402-404
CallTooShort(call) ==
  CASE call.op = "themes" -> TooShort(call.content)
    [] call.op = "prompts" -> StrLen(StripSegs(call.content)) < MinRecentLen
    [] call.op = "todos" -> StrLen(StripSegs(call.content)) < MinTodoContentLen

\* the request the call sends: analysis.py 70-82, 298-352, 406-435
RequestOf(call) ==
  CASE call.op = "themes" ->
         [kind |-> "themes",
          instruction |-> [analysis_content |-> AnalysisContent(call.content)]]
    [] call.op = "prompts" ->
         [kind |-> "questions",
          instruction |->
            [count |-> call.count,
             focus_instruction |-> call.focus,
             weekly_instruction |-> call.is_sunday,
             analysis_content |-> ComposeAnalysis(call.content)]]
    [] call.op = "todos" ->
         [kind |-> "todos",
          instruction |-> [analysis_content |-> DayContent(call.content)]]

\* the composite inputs have up to MaxBlocks days
MaxBlocks == 4

\* the calls that are made: the contents are plain texts or composites of
\* days; no focus (focus = None) is written ""
RequestsInit ==
  LET day_bodies ==
        {<<Txt("t", 30), Nl(1)>>,
         <<Mark("bdhead"), Nl(1), Txt("q", 51), Nl(2), Mark("rphead"), Nl(1),
           Mark("bold"), Nl(1), Txt("p", 19), Nl(1), Mark("rule"), Nl(1)>>,
         <<Txt("t", 30), Nl(2), Mark("rphead"), Nl(2), Mark("bold"), Nl(1)>>,
         <<Mark("rphead"), Nl(1), Txt("p", 19), Nl(2), Mark("h2"), Nl(1), Txt("t", 30)>>}
      RECURSIVE Blocks(_, _)
      Blocks(bodies, i) ==
        IF i > Len(bodies) THEN <<>>
        ELSE <<DayHead(IF i = 1 THEN "recenthead" ELSE "earlierhead", DigitChars[i])>>
             \o bodies[i] \o Blocks(bodies, i + 1)
      composites ==
        {Blocks(bodies, 1) : bodies \in UNION {[1..k -> day_bodies] : k \in 1..MaxBlocks}}
      plain == {Entry1, Entry3, <<Nl(3), Txt("s", 19), Nl(30)>>}
      calls ==
        {[op |-> "themes", content |-> c, focus |-> "", count |-> 0,
          is_sunday |-> FALSE] : c \in DirectContents}
        \cup {[op |-> "todos", content |-> c, focus |-> "", count |-> 0,
               is_sunday |-> FALSE] : c \in plain}
        \cup {[op |-> "prompts", content |-> c, focus |-> f, count |-> 3,
               is_sunday |-> w] :
                c \in composites \cup plain, f \in {"", "work"}, w \in BOOLEAN}
  IN /\ fpc = "start"
     /\ fin \in calls
     /\ fout = [requests |-> <<>>, value |-> <<>>, failed |-> FALSE]
     /\ MainIdle

\* analysis.py 67-68, 222-224, 402-404: the input is too short
CallReturnsEarly ==
  /\ fpc = "start"
  /\ CallTooShort(fin)
  /\ fout' = [fout EXCEPT !.value = <<>>]
  /\ fpc' = "returned"
  /\ UNCHANGED <<fin, mvars>>

\* analysis.py 79-82, 349-352, 432-435: the request is sent and awaited
CallSendsRequest ==
  /\ fpc = "start"
  /\ ~ CallTooShort(fin)
  /\ fout' = [fout EXCEPT !.requests = Append(@, RequestOf(fin))]
  /\ fpc' = "awaiting"
  /\ UNCHANGED <<fin, mvars>>

\* analysis.py 88-93, 359-395, 442-461: the request answers with one of the
\* texts the collaborator may give and the answer is parsed
CallAnswered ==
  LET todo_list ==
        <<"-", " ", "c", "a", "l", "l", " ", "m", "o", "m", "\n", "*", " ", "x",
          " ", "y", "\n", " ", " ", "BULLET", " ", "f", "i", "x", " ", "t", "h",
          "e", " ", "b", "i", "k", "e", " ", "\n", "b", "u", "y", " ", "m", "i",
          "l", "k", "\n", "-", "*", "-", " ", "\n">>
      todo_headed ==
        <<"h", "e", "r", "e", " ", "a", "r", "e", " ", "t", "h", "e", " ", "t",
          "a", "s", "k", "s", ":", "\n", "A", "c", "t", "i", "o", "n", " ", "i",
          "t", "e", "m", "s", ":", "\n", "-", " ", "w", "r", "i", "t", "e", " ",
          "r", "e", "p", "o", "r", "t">>
      todo_none ==
        <<"-", " ", "p", "a", "y", " ", "r", "e", "n", "t", "\n", "n", "o", " ",
          "A", "c", "t", "i", "o", "n", " ", "i", "t", "e", "m", "s", " ", "f",
          "o", "u", "n", "d">>
      responses ==
        CASE fin.op = "themes" -> Responses
          [] fin.op = "prompts" -> {ThinkResponse, <<"1", ".", " ", "x", "?">>, <<>>}
          [] fin.op = "todos" -> {todo_list, todo_headed, todo_none, <<>>}
      Parsed(response_text) ==
        CASE fin.op = "themes" -> ParseThemes(response_text)
          [] fin.op = "prompts" ->
               ParsePrompts(fin.content, fin.count, response_text).prompts
          [] fin.op = "todos" -> ParseTodos(response_text)
  IN /\ fpc = "awaiting"
     /\ \E response_text \in responses :
          fout' = [fout EXCEPT !.value = Parsed(response_text)]
     /\ fpc' = "returned"
     /\ UNCHANGED <<fin, mvars>>

\* analysis.py 84-86, 355-357, 438-440: the request raises; the call returns
\* its empty result
CallFailed ==
  /\ fpc = "awaiting"
  /\ fout' = [fout EXCEPT !.failed = TRUE, !.value = <<>>]
  /\ fpc' = IF Len(fout.requests) < RequestAttempts THEN "start" ELSE "returned"
  /\ UNCHANGED <<fin, mvars>>

SpecRequests ==
  RequestsInit /\ [][\/ CallReturnsEarly
                   \/ CallSendsRequest
                   \/ CallAnswered
                   \/ CallFailed]_vars

(***************************************************************************)
(* Several callers of get_themes_cached on one engine (analysis.py 95-104).*)
(* Every caller has made its call; a caller is suspended only while its    *)
(* generation request is outstanding, and the steps of the callers         *)
(* interleave in any order, so a call may run after another has returned   *)
(* or overlap with it.  fpc, fin and fout hold, per caller, the position,  *)
(* the arguments and the outcome of the call; stored is the list of the    *)
(* writes to the cache, in order.                                          *)
(***************************************************************************)
MaxCallers == 2

\* the calls get_themes_cached(content, file_stem) the callers make; two of
\* the texts have the same length and differ only after their first 100
\* characters
CallersInit ==
  LET u == <<Txt("p", HashedPrefixLen), Nl(1), Txt("u", 20)>>
      v == <<Txt("p", HashedPrefixLen), Nl(1), Txt("v", 20)>>
      calls == {[content |-> u, stem |-> "d1"],
                [content |-> v, stem |-> "d1"],
                [content |-> v, stem |-> "d3"],
                [content |-> <<Nl(3), Txt("s", 19), Nl(30)>>, stem |-> "d1"]}
  IN /\ fpc = [c \in 1..MaxCallers |-> "call"]
     /\ fin \in [1..MaxCallers -> calls]
     /\ fout = [c \in 1..MaxCallers |-> [ret |-> <<>>, served |-> "none"]]
     /\ MainIdle

\* analysis.py 99-100: the key is in the cache
CallerHit ==
  \E c \in DOMAIN fpc :
    /\ fpc[c] = "call"
    /\ Cached(theme_cache, fin[c].content, fin[c].stem)
    /\ fout' = [fout EXCEPT ![c] =
                  [ret |-> theme_cache[CacheKey(fin[c].content, fin[c].stem)],
                   served |-> "hit"]]
    /\ fpc' = [fpc EXCEPT ![c] = "ret"]
    /\ UNCHANGED <<theme_cache, nreq, outstanding, stored>>
    /\ UNCHANGED <<fin, unreadable, nops, op, pc, arg, ret, served, scanvars,
                    result, histvars>>

\* analysis.py 102-104 with 53-68: a miss on a text too short to analyse
CallerTooShort ==
  \E c \in DOMAIN fpc :
    /\ fpc[c] = "call"
    /\ ~ Cached(theme_cache, fin[c].content, fin[c].stem)
    /\ TooShort(fin[c].content)
    /\ theme_cache' = CachePut(theme_cache, fin[c].content, fin[c].stem, <<>>)
    /\ stored' = Append(stored, [caller |-> c, stem |-> fin[c].stem,
                                 content |-> fin[c].content,
                                 themes |-> <<>>,
                                 how |-> "short"])
    /\ fout' = [fout EXCEPT ![c] = [ret |-> <<>>, served |-> "short"]]
    /\ fpc' = [fpc EXCEPT ![c] = "ret"]
    /\ UNCHANGED <<nreq, outstanding>>
    /\ UNCHANGED <<fin, unreadable, nops, op, pc, arg, ret, served, scanvars,
                    result, histvars>>

\* analysis.py 102 with 70-82: a miss; the caller issues its generation
\* request and is suspended
CallerIssues ==
  \E c \in DOMAIN fpc :
    /\ fpc[c] = "call"
    /\ ~ Cached(theme_cache, fin[c].content, fin[c].stem)
    /\ ~ TooShort(fin[c].content)
    /\ nreq' = nreq + 1
    /\ outstanding' = outstanding + 1
    /\ fpc' = [fpc EXCEPT ![c] = AfterIssue]
    /\ UNCHANGED <<fout, theme_cache, stored>>
    /\ UNCHANGED <<fin, unreadable, nops, op, pc, arg, ret, served, scanvars,
                    result, histvars>>

\* analysis.py 83, 88-93, 103-104: the request of the caller answers
CallerAnswered ==
  \E c \in DOMAIN fpc :
    /\ fpc[c] = "await"
    /\ \E response_text \in Responses :
         /\ theme_cache' = CachePut(theme_cache, fin[c].content, fin[c].stem,
                                    ParseThemes(response_text))
         /\ stored' = Append(stored, [caller |-> c, stem |-> fin[c].stem,
                                      content |-> fin[c].content,
                                      themes |-> ParseThemes(response_text),
                                      how |-> "generated"])
         /\ fout' = [fout EXCEPT ![c] = [ret |-> ParseThemes(response_text),
                                         served |-> "generated"]]
    /\ outstanding' = outstanding - 1
    /\ fpc' = [fpc EXCEPT ![c] = "ret"]
    /\ UNCHANGED nreq
    /\ UNCHANGED <<fin, unreadable, nops, op, pc, arg, ret, served, scanvars,
                    result, histvars>>

\* analysis.py 84-86, 103-104: the request of the caller raises
CallerFails ==
  \E c \in DOMAIN fpc :
    /\ fpc[c] = "await"
    /\ outstanding' = outstanding - 1
    /\ IF OnGenerateFailure.raised
       THEN /\ fpc' = [fpc EXCEPT ![c] = "raised"]
            /\ UNCHANGED <<theme_cache, stored, fout>>
       ELSE /\ theme_cache' = CachePut(theme_cache, fin[c].content, fin[c].stem,
                                       OnGenerateFailure.themes)
            /\ stored' = Append(stored, [caller |-> c, stem |-> fin[c].stem,
                                         content |-> fin[c].content,
                                         themes |-> OnGenerateFailure.themes,
                                         how |-> "failed"])
            /\ fout' = [fout EXCEPT ![c] = [ret |-> OnGenerateFailure.themes,
                                            served |-> "failed"]]
            /\ fpc' = [fpc EXCEPT ![c] = "ret"]
    /\ UNCHANGED nreq
    /\ UNCHANGED <<fin, unreadable, nops, op, pc, arg, ret, served, scanvars,
                    result, histvars>>

SpecCallers ==
  CallersInit /\ [][\/ CallerHit
                    \/ CallerTooShort
                    \/ CallerIssues
                    \/ CallerAnswered
                    \/ CallerFails]_vars

(***************************************************************************)
(* The Core Themes and Growth Trajectory sections of the memory trace      *)
(* (memory_trace.py 137-189 and 283-340) on one entry_data list.  An entry *)
(* is its date, its ThemeSet and the numbers of positive and of negative   *)
(* words its content contains.                                             *)
(***************************************************************************)
\* the 5 of len(sentiment_scores) // 5, memory_trace.py 307
TrajectoryParts == 5

\* 0.2 = 2/10, memory_trace.py 317 and 321
StrongNum == 2
StrongDen == 10

\* memory_trace.py 295-335: the rendered segments, each with the date of its
\* first entry, its arrow and whether a connector follows the date.  The
\* scores and the averages are kept as exact fractions with a positive
\* denominator.
_generate_growth_trajectory(data) ==
  LET \* score = (positive_count - negative_count) / total if total > 0 else 0
      Score(entry) ==
        LET total == entry.positive + entry.negative
        IN IF total > 0 THEN <<entry.positive - entry.negative, total>>
           ELSE <<0, 1>>
      sentiment_scores == [i \in 1..Len(data) |-> Score(data[i])]
      n == Len(sentiment_scores)
      \* segment_size = max(1, len(sentiment_scores) // 5)
      segment_size == IF n \div TrajectoryParts > 1 THEN n \div TrajectoryParts ELSE 1
      \* range(0, len(sentiment_scores), segment_size)
      starts == [k \in 1..((n + segment_size - 1) \div segment_size) |->
                   (k - 1) * segment_size]
      RECURSIVE Sum(_, _)
      Sum(segment, i) ==
        IF i > Len(segment) THEN <<0, 1>>
        ELSE LET rest == Sum(segment, i + 1)
             IN <<segment[i][1] * rest[2] + rest[1] * segment[i][2],
                  segment[i][2] * rest[2]>>
      \* avg = sum(segment) / len(segment) if segment else 0
      Average(segment) ==
        IF segment # <<>>
        THEN <<Sum(segment, 1)[1], Sum(segment, 1)[2] * Len(segment)>>
        ELSE <<0, 1>>
      \* sentiment_scores[i:i+segment_size]
      Slice(i) ==
        SubSeq(sentiment_scores, i + 1,
               IF i + segment_size < n THEN i + segment_size ELSE n)
      segments == [k \in 1..Len(starts) |-> Average(Slice(starts[k]))]
      \* memory_trace.py 317-326
      Arrow(score) ==
        IF score[1] * StrongDen > StrongNum * score[2] THEN "up up up"
        ELSE IF score[1] > 0 THEN "up"
        ELSE IF score[1] * StrongDen < (0 - StrongNum) * score[2] THEN "down down"
        ELSE IF score[1] < 0 THEN "down"
        ELSE "level"
  IN [i \in 1..Len(segments) |->
        [date |-> data[(i - 1) * segment_size + 1].date,
         arrow |-> Arrow(segments[i]),
         connector |-> i < Len(segments)]]

\* most_common(8), memory_trace.py 146
TopThemeCount == 8

\* memory_trace.py 139-189: the blocks of the section, none when no entry has
\* a theme; a counted theme is in some entry, so no pair is passed over
_generate_core_themes(data) ==
  LET \* all_themes.extend(entry['themes']) over the entries
      RECURSIVE AllThemes(_)
      AllThemes(i) ==
        IF i > Len(data) THEN <<>> ELSE data[i].themes \o AllThemes(i + 1)
      \* all_themes of the source
      themes_list == AllThemes(1)
      \* the keys of Counter(all_themes), in the order they were first met
      RECURSIVE Keys(_)
      Keys(i) ==
        IF i > Len(themes_list) THEN <<>>
        ELSE IF \E j \in 1..(i - 1) : themes_list[j] = themes_list[i]
             THEN Keys(i + 1)
             ELSE <<themes_list[i]>> \o Keys(i + 1)
      keys == Keys(1)
      \* Counter(all_themes)[theme]: the occurrences of the theme in the list
      theme_counts(theme) ==
        Cardinality({i \in 1..Len(themes_list) : themes_list[i] = theme})
      \* most_common: the highest counts first, equal counts in the order
      \* first met
      Before(i, j) == \/ theme_counts(keys[i]) > theme_counts(keys[j])
                      \/ /\ theme_counts(keys[i]) = theme_counts(keys[j])
                         /\ i < j
      Rank(j) == 1 + Cardinality({i \in 1..Len(keys) : Before(i, j)})
      sorted == [r \in 1..Len(keys) |->
                   keys[CHOOSE j \in 1..Len(keys) : Rank(j) = r]]
      top_themes == Take(sorted, TopThemeCount)
      \* f"{percentage:.0f}" of num/den: the nearest integer, a half to the
      \* even one
      Rounded(num, den) ==
        IF 2 * (num % den) > den
           \/ (2 * (num % den) = den /\ (num \div den) % 2 = 1)
        THEN (num \div den) + 1
        ELSE num \div den
      \* memory_trace.py 153-184 for one theme of top_themes
      Block(theme) ==
        LET theme_entries == SelectSeq(data, LAMBDA e : theme \in ToSet(e.themes))
            m == Len(theme_entries)
            count == theme_counts(theme)
        IN [theme |-> theme,
            count |-> count,
            percentage |-> Rounded(count * 100, Len(data)),
            first_date |-> theme_entries[1].date,
            last_date |-> theme_entries[m].date,
            snippets |-> IF m >= 3
                         THEN <<theme_entries[1].date,
                                theme_entries[(m \div 2) + 1].date,
                                theme_entries[m].date>>
                         ELSE <<theme_entries[m].date>>]
  IN [i \in 1..Len(top_themes) |-> Block(top_themes[i])]

\* the valid entries of a trace: up to MaxTraceEntries entries in date order,
\* each with the ThemeSet extract_themes_and_topics parsed from a response,
\* one of them naming a theme twice
MaxTraceEntries == 11

TraceInit ==
  LET kinds ==
        {[themes |-> ParseThemes(<<"b", ",", " ", "B">>), positive |-> 2,
          negative |-> 0],
         [themes |-> ParseThemes(RespBCD), positive |-> 1, negative |-> 2]}
      entry_lists ==
        UNION {{[i \in 1..n |-> [date |-> i, themes |-> f[i].themes,
                                 positive |-> f[i].positive,
                                 negative |-> f[i].negative]] :
                  f \in [1..n -> kinds]} : n \in 1..MaxTraceEntries}
  IN /\ fpc = "trace_in"
     /\ fin \in entry_lists
     /\ fout = <<>>
     /\ MainIdle

\* memory_trace.py 59: the Core Themes section of the report
GenerateCoreThemes ==
  /\ fpc = "trace_in"
  /\ fout' = _generate_core_themes(fin)
  /\ fpc' = "themes_out"
  /\ UNCHANGED <<fin, mvars>>

\* memory_trace.py 72: the Growth Trajectory section of the report
GenerateGrowthTrajectory ==
  /\ fpc = "trace_in"
  /\ fout' = _generate_growth_trajectory(fin)
  /\ fpc' = "growth_out"
  /\ UNCHANGED <<fin, mvars>>

SpecTrace ==
  TraceInit /\ [][\/ GenerateCoreThemes
                \/ GenerateGrowthTrajectory]_vars

(***************************************************************************)
(* The similarity test of find_related_entries (analysis.py 179-192) on    *)
(* one query ThemeSet and one entry ThemeSet, both made sets and neither   *)
(* empty.  Themes are compared for equality only, so they are numbers, the *)
(* query is the first themes of the vocabulary and the entry any set of up *)
(* to 5 themes over it.                                                    *)
(***************************************************************************)
MaxVocabulary == 9

SimilarityInit ==
  /\ fpc = "sim_in"
  /\ fin \in {[query |-> 1..a, entry |-> e] :
                a \in 1..MaxThemeCount,
                e \in {s \in SUBSET (1..MaxVocabulary) :
                         Cardinality(s) \in 1..MaxThemeCount}}
  /\ fout = <<>>
  /\ MainIdle

\* analysis.py 184-192: the score of the entry and whether it is kept
ScoreEntry ==
  /\ fpc = "sim_in"
  /\ LET similarity == Similarity(fin.query, fin.entry)
     IN fout' = [similarity |-> similarity, kept |-> AboveThreshold(similarity)]
  /\ fpc' = "sim_out"
  /\ UNCHANGED <<fin, mvars>>

SpecSimilarity == SimilarityInit /\ [][ScoreEntry]_vars

(***************************************************************************)
(* Properties                                                              *)
(***************************************************************************)
Min(a, b) == IF a < b THEN a ELSE b

\* C1: with one caller at a time, a key that is in the cache keeps its value
\* for ever, and a get_themes_cached call whose key is in the cache returns
\* the stored ThemeSet, issues no generation request and leaves the cache
\* as it is.
CacheWriteOnce ==
  [][/\ \A k \in DOMAIN theme_cache :
          k \in DOMAIN theme_cache' /\ theme_cache'[k] = theme_cache[k]
     /\ (pc = "call" /\ CacheKey(arg.content, arg.stem) \in DOMAIN theme_cache)
          => /\ pc' = "ret"
             /\ ret' = theme_cache[CacheKey(arg.content, arg.stem)]
             /\ nreq' = nreq
             /\ theme_cache' = theme_cache]_vars

\* a call was served from the cache with themes that a request had produced
CacheHitServed == pc = "ret" /\ served = "hit" /\ ret # <<>> /\ nreq > 0

\* the stems a finished scan must have read, in order
ExpectedReads ==
  SelectSeq([i \in 1..Len(entries) |-> entries[i].stem],
            LAMBDA st : ~ (exclude_date # NoStem /\ st = exclude_date))

\* the scan went through the corpus and returned
ScanDone ==
  /\ op \in {"fre", "mt"}
  /\ pc = "done"
  /\ op = "fre" => current_themes # {}

\* C2: in a corpus scan a failing generation request never surfaces as an
\* error; the entry it was for contributes the empty ThemeSet, and the scan
\* still reads every entry of the corpus.
ScanSurvivesFailure ==
  /\ pc # "raised"
  /\ \A st \in failed \cap DOMAIN contributed : contributed[st] = <<>>
  /\ ScanDone => reads = ExpectedReads

\* a request failed for one entry and a later entry of the same scan still
\* contributed themes
FailureThenThemes ==
  /\ ScanDone
  /\ \E i, j \in 1..Len(reads) :
       /\ i < j
       /\ reads[i] \in failed \cap DOMAIN contributed
       /\ reads[j] \in DOMAIN contributed
       /\ contributed[reads[j]] # <<>>

\* the text theme extraction resolves: the Brain Dump section when it is
\* longer than 50 characters, else the text without the related-entries and
\* memory-links blocks
ResolvedText(content) ==
  IF StrLen(_extract_brain_dump(content)) > 50
  THEN _extract_brain_dump(content)
  ELSE CutFrom(CutFrom(content, "related"), "memlinks")

\* C3: when the resolved analysis text trims to fewer than 20 characters,
\* theme extraction returns the empty sequence and issues no generation
\* request.
ShortTextNoRequest ==
  [][(/\ pc = "call"
      /\ CacheKey(arg.content, arg.stem) \notin DOMAIN theme_cache
      /\ StrLen(StripSegs(ResolvedText(arg.content))) < 20)
       => (pc' = "ret" /\ ret' = <<>> /\ nreq' = nreq)]_vars

\* extraction gave up on a text of 20 characters or more that trims to less
ShortTextServed ==
  pc = "ret" /\ served = "short" /\ StrLen(arg.content) >= 20

\* the positions in the store of the entries that qualify as related
Qualifying ==
  {i \in 1..Len(Store) :
     /\ Store[i].stem # exclude_date
     /\ ~ StartsWithMark(read_entry(Store[i], unreadable), "errfile")
     /\ Store[i].stem \in DOMAIN contributed
     /\ contributed[Store[i].stem] # <<>>
     /\ LET themes == ToSet(contributed[Store[i].stem])
        IN 100 * Cardinality(current_themes \cap themes)
             > 8 * Cardinality(current_themes \cup themes)}

\* C4: find_related_entries returns backlinks for exactly the entries that
\* are not excluded, were read without the failure sentinel, have themes and
\* have a Jaccard score above 0.08, cut to max_related of them; when the
\* query has no themes it returns nothing and reads no entry.
RelatedExactly ==
  (op = "fre" /\ pc = "done") =>
    IF current_themes = {}
    THEN result.value = <<>> /\ reads = <<>> /\ contributed = EmptyMap
    ELSE /\ \A i \in 1..Len(Store) :
              (/\ Store[i].stem # exclude_date
               /\ ~ StartsWithMark(read_entry(Store[i], unreadable), "errfile"))
                => Store[i].stem \in DOMAIN contributed
         /\ \A k \in 1..Len(result.value) :
              \E i \in Qualifying : result.value[k] = <<"[[", Store[i].stem, "]]">>
         /\ \A k, l \in 1..Len(result.value) :
              result.value[k] = result.value[l] => k = l
         /\ Len(result.value) = Min(max_related, Cardinality(Qualifying))

\* a search returned some entries and left out an entry that has themes,
\* without the cut to max_related having taken anything away
RelatedSomeNotAll ==
  /\ op = "fre"
  /\ pc = "done"
  /\ result.value # <<>>
  /\ Len(result.value) < max_related
  /\ \E st \in DOMAIN contributed :
       /\ contributed[st] # <<>>
       /\ \A k \in 1..Len(result.value) : result.value[k] # <<"[[", st, "]]">>

\* the position in the input of the entry a backlink names
RankPos(k) == CHOOSE i \in 1..Len(fin.scores) : fout[k] = <<"[[", fin.scores[i].stem, "]]">>

\* the entry at position i ranks before the entry at position j: a higher
\* score, or the same score and an earlier position
RanksBefore(i, j) ==
  LET a == fin.scores[i].score
      b == fin.scores[j].score
  IN \/ a[1] * b[2] > b[1] * a[2]
     \/ a[1] * b[2] = b[1] * a[2] /\ i < j

\* C5: the backlinks are in descending order of score, equal scores in
\* corpus order, and are the max_related highest-ranking entries (max_related
\* a non-negative count); scores [0.5, 0.2, 0.9] of X, Y, Z give Z, X, Y.
RankedStable ==
  fpc = "rank_out" =>
    /\ Len(fout) = Min(Len(fin.scores), fin.max_related)
    /\ \A k \in 1..Len(fout) :
         \E i \in 1..Len(fin.scores) : fout[k] = <<"[[", fin.scores[i].stem, "]]">>
    /\ \A k, l \in 1..Len(fout) : k < l => RanksBefore(RankPos(k), RankPos(l))
    /\ \A i \in 1..Len(fin.scores) :
         (\A k \in 1..Len(fout) : RankPos(k) # i)
           => \A k \in 1..Len(fout) : RanksBefore(RankPos(k), i)
    /\ (/\ fin.scores = <<[score |-> <<5, 10>>, stem |-> "X"],
                          [score |-> <<2, 10>>, stem |-> "Y"],
                          [score |-> <<9, 10>>, stem |-> "Z"]>>
        /\ fin.max_related >= 3)
         => fout = <<<<"[[", "Z", "]]">>, <<"[[", "X", "]]">>, <<"[[", "Y", "]]">>>>

\* a ranking with two equal scores among the kept entries, and an entry cut
RankedTieAndCut ==
  /\ fpc = "rank_out"
  /\ Len(fout) = 2
  /\ Len(fin.scores) = 3
  /\ fin.scores[RankPos(1)].score = fin.scores[RankPos(2)].score

\* a tag matches ^#[a-z0-9-]+$
MatchesTagPattern(tag) ==
  /\ Len(tag) >= 2
  /\ tag[1] = "#"
  /\ \A i \in 2..Len(tag) : tag[i] \in LowerLetters \cup Digits \cup {"-"}

\* C6: every tag generate_topic_tags produces matches ^#[a-z0-9-]+$.
TagsMatchPattern ==
  fpc = "tags_out" => \A i \in 1..Len(fout) : MatchesTagPattern(fout[i])

\* C7: ["key themes: Work, Rest"] gives ["#work", "#rest"], each listed
\* concept its own tag, and ["Friendship"] gives ["#friendship"].
PreambleResplit ==
  fpc = "tags_out" =>
    /\ fin = <<KeyThemesWorkRest>>
         => fout = <<<<"#", "w", "o", "r", "k">>, <<"#", "r", "e", "s", "t">>>>
    /\ fin = <<Friendship>>
         => fout = <<<<"#", "f", "r", "i", "e", "n", "d", "s", "h", "i", "p">>>>

\* C9: generate_memory_trace on an empty corpus, or on one in which every
\* read fails, returns the fixed message and computes no section.
EmptyTraceMessage ==
  (/\ op = "mt"
   /\ pc = "done"
   /\ \A i \in 1..Len(entries) : entries[i].stem \in unreadable)
    => /\ result.kind = "message"
       /\ result.value = "No valid entries found to analyze."
       /\ result.sections = <<>>

\* a trace over a corpus none of whose entries could be read has returned
AllReadsFailedTrace ==
  /\ op = "mt"
  /\ pc = "done"
  /\ entries # <<>>
  /\ \A i \in 1..Len(entries) : entries[i].stem \in unreadable
  /\ result.kind = "message"

\* C10: in both scans an entry is skipped as a read failure exactly when the
\* string read_entry returned begins with "Error reading file".
SkippedIffSentinel ==
  \A i \in 1..Len(Store) :
    Store[i].stem \in ToSet(reads)
      => (Store[i].stem \in skipped
            <=> StartsWithMark(read_entry(Store[i], unreadable), "errfile"))

\* the headings of the input, in order
InputHeads == SelectSeq(fin.recent_content, LAMBDA g : g.kind \in DayHeadKinds)

RECURSIVE ExpectedRewrite(_, _)
\* the line with every "[Day N]", N in 1..7 and at most the number of
\* headings, replaced by "[[date of the N-th heading]]", all else as it is
ExpectedRewrite(line, heads) ==
  IF line = <<>> THEN <<>>
  ELSE IF /\ Len(line) >= 4
          /\ line[1] = "[" /\ line[2] = "Day " /\ line[4] = "]"
          /\ \E n \in 1..7 : n <= Len(heads) /\ line[3] = DigitChars[n]
       THEN LET n == CHOOSE k \in 1..7 : line[3] = DigitChars[k]
            IN <<"[", "[", "2024-01-0", heads[n].id, "]", "]">>
               \o ExpectedRewrite(SubSeq(line, 5, Len(line)), heads)
       ELSE <<Head(line)>> \o ExpectedRewrite(Tail(line), heads)

\* C8: in every kept line, every "[Day N]" with N in 1..7 and Day N in
\* date_map becomes "[[date of Day N]]" and nothing else changes; a bracketed
\* label that is not in date_map stays (all of them when the input has no day
\* headings).
CitationsRewritten ==
  fpc = "prompts_out" =>
    /\ Len(fout.prompts) = Len(fout.clean)
    /\ \A i \in 1..Len(fout.prompts) :
         fout.prompts[i] = ExpectedRewrite(fout.clean[i], InputHeads)

\* a kept line in which one citation was rewritten and the citation of a day
\* the input does not have was left
CitationRewrittenAndLeft ==
  /\ fpc = "prompts_out"
  /\ \E i \in 1..Len(fout.prompts) :
       /\ fout.prompts[i] # fout.clean[i]
       /\ Contains(fout.prompts[i], <<"[", "Day ", "4", "]">>)

\* C11: within one scan at most one generation request is outstanding at any
\* moment, and a request is issued only when the scan has finished with
\* every entry it read before: each was skipped or its themes came back.
ScanSequential ==
  [][/\ outstanding' <= 1
     /\ (nreq' # nreq /\ op \in {"fre", "mt"})
          => /\ outstanding = 0
             /\ \A i \in 1..(Len(reads) - 1) :
                  reads[i] \in skipped \cup DOMAIN contributed]_vars

\* the first operation of the engine is a scan that waits for the answer to
\* a request after an earlier request of its own has come back with themes
SecondRequestAfterFirst ==
  /\ op \in {"fre", "mt"}
  /\ pc = "await"
  /\ outstanding = 1
  /\ \E i \in 1..(Len(reads) - 1) :
       reads[i] \in DOMAIN contributed /\ contributed[reads[i]] # <<>>
  /\ nops = 1

\* the write w was made for the same identifier and for a text of the same
\* length and the same first 100 characters as the call
SameKeyParts(w, call) ==
  /\ w.stem = call.stem
  /\ StrLen(w.content) = StrLen(call.content)
  /\ Prefix(w.content, 100) = Prefix(call.content, 100)

\* the positions in stored of such writes
WritesFor(call) == {i \in 1..Len(stored) : SameKeyParts(stored[i], call)}

\* the latest of them
LastWriteFor(call) ==
  stored[CHOOSE i \in WritesFor(call) : \A j \in WritesFor(call) : j <= i]

\* C12: when the ThemeSet last stored for the identifier, length and first
\* 100 characters of a call was stored for a different content, the call
\* returns that ThemeSet and issues no generation request.
PrefixCollision ==
  [][\A c \in DOMAIN fpc :
       (/\ fpc[c] = "call"
        /\ fpc'[c] # "call"
        /\ WritesFor(fin[c]) # {}
        /\ LastWriteFor(fin[c]).content # fin[c].content)
         => /\ fpc'[c] = "ret"
            /\ fout'[c].ret = LastWriteFor(fin[c]).themes
            /\ nreq' = nreq
            /\ theme_cache' = theme_cache]_vars

\* a call was served the themes that a request had produced for another
\* content
CollisionServed ==
  \E c \in DOMAIN fpc :
    /\ fout[c].served = "hit"
    /\ fout[c].ret # <<>>
    /\ WritesFor(fin[c]) # {}
    /\ LastWriteFor(fin[c]).content # fin[c].content
    /\ LastWriteFor(fin[c]).how = "generated"
    /\ nreq = 1

\* the callers whose call missed the cache and issued a request
Requesters ==
  {c \in DOMAIN fpc : fpc[c] = "await" \/ fout[c].served \in {"generated", "failed"}}

\* C14: every call that passes the membership test before the key is stored
\* issues its own generation request, and writes its own result under the
\* key when the request completes, whatever another call has stored there
\* in between.
OverlapEachWrites ==
  [][/\ \A c \in DOMAIN fpc :
          (fpc[c] = "await" /\ fpc'[c] = "ret")
            => /\ CacheKey(fin[c].content, fin[c].stem) \in DOMAIN theme_cache'
               /\ theme_cache'[CacheKey(fin[c].content, fin[c].stem)] = fout'[c].ret
     /\ nreq' = Cardinality(Requesters')]_vars

\* two overlapping calls for one key: the failure of the later one has
\* replaced the themes the earlier one had stored
SuccessReplacedByFailure ==
  \E i, j \in 1..Len(stored) :
    /\ i < j
    /\ stored[i].caller # stored[j].caller
    /\ CacheKey(stored[i].content, stored[i].stem)
         = CacheKey(stored[j].content, stored[j].stem)
    /\ stored[i].how = "generated"
    /\ stored[i].themes # <<>>
    /\ stored[j].how = "failed"
    /\ theme_cache[CacheKey(stored[j].content, stored[j].stem)] = <<>>

\* the positions in stored of the writes made under the cache key of the call
KeyWrites(call) ==
  {i \in 1..Len(stored) :
     CacheKey(stored[i].content, stored[i].stem) = CacheKey(call.content, call.stem)}

\* the latest write under the key of the call recorded a failed request
LastWriteFailed(call) ==
  /\ KeyWrites(call) # {}
  /\ stored[CHOOSE i \in KeyWrites(call) : \A j \in KeyWrites(call) : j <= i].how
       = "failed"

\* C18: once the failure of a generation request has been stored under a
\* key, a later get_themes_cached call with that key returns the empty
\* ThemeSet, issues no generation request and leaves the cache as it is.
FailureMemoized ==
  [][\A c \in DOMAIN fpc :
       (fpc[c] = "call" /\ fpc'[c] # "call" /\ LastWriteFailed(fin[c]))
         => /\ fpc'[c] = "ret"
            /\ fout'[c].ret = <<>>
            /\ fout'[c].served = "hit"
            /\ nreq' = nreq
            /\ theme_cache' = theme_cache]_vars

\* a call of a text long enough to analyse was served the empty ThemeSet
\* that the failed request of an earlier call had left under its key
FailureServedLater ==
  \E c \in DOMAIN fpc :
    /\ fout[c].served = "hit"
    /\ fout[c].ret = <<>>
    /\ ~ TooShort(fin[c].content)
    /\ LastWriteFailed(fin[c])

\* C13: a call issues at most one generation request, and a call whose
\* request failed has returned its empty result without another request.
NoRetry ==
  /\ Len(fout.requests) <= 1
  /\ fout.failed => /\ fpc = "returned"
                    /\ fout.value = <<>>
                    /\ Len(fout.requests) = 1

\* a generate_reflection_prompts call returned after its request had failed
PromptsRequestFailed ==
  /\ fin.op = "prompts"
  /\ fpc = "returned"
  /\ fout.failed
  /\ Len(fout.requests) = 1

\* the input has no day heading, no focus is given and the call got as far
\* as its generation request
PlainUnfocusedCall ==
  /\ fin.op = "prompts"
  /\ fin.focus = ""
  /\ \A i \in 1..Len(fin.content) : fin.content[i].kind \notin DayHeadKinds
  /\ fpc = "returned"
  /\ StrLen(StripSegs(fin.content)) >= MinRecentLen

\* C15 as it is claimed: for an input without day headings and without a
\* focus, a theme-extraction request precedes the question-generation
\* request, and the instruction of the latter carries the extracted themes.
ThemesPreExtracted ==
  PlainUnfocusedCall =>
    \E i, j \in 1..Len(fout.requests) :
      /\ i < j
      /\ fout.requests[i].kind = "themes"
      /\ fout.requests[j].kind = "questions"
      /\ "themes" \in DOMAIN fout.requests[j].instruction

\* C15 as amended: for an input without day headings and without a focus no
\* themes are extracted; the only generation request of the call is the
\* question-generation request, and its instruction carries the count, the
\* Brain Dump section of the input when that is longer than 50 characters
\* and else the whole input, and no themes.
SingleQuestionRequest ==
  PlainUnfocusedCall =>
    /\ Len(fout.requests) = 1
    /\ fout.requests[1].kind = "questions"
    /\ DOMAIN fout.requests[1].instruction
         = {"count", "focus_instruction", "weekly_instruction", "analysis_content"}
    /\ fout.requests[1].instruction.focus_instruction = ""
    /\ Len(fout.requests[1].instruction.analysis_content) = 1
    /\ fout.requests[1].instruction.analysis_content[1].text
         = IF StrLen(_extract_brain_dump(fin.content)) > 50
           THEN _extract_brain_dump(fin.content)
           ELSE fin.content

\* such a call has returned prompts for an input whose Brain Dump section
\* was sent in place of the whole input
PlainCallAnswered ==
  /\ PlainUnfocusedCall
  /\ fout.value # <<>>
  /\ fout.requests[1].instruction.analysis_content[1].text # fin.content

\* the bodies of the days of the input of the call, in order
DayTexts ==
  [m \in 1..Len(EntryMatches(fin.content)) |-> EntryMatches(fin.content)[m].content]

\* the days after the first whose body has a prior-prompts section that is
\* not empty
DaysWithPrompts ==
  {i \in 2..Len(DayTexts) : _extract_reflection_prompts(DayTexts[i]) # <<>>}

\* C16: the analysis content of a composite input of k >= 2 days is the
\* primary focus (Day 1), then the historical context with one part per
\* day 2..k in day order, labelled secondary priority, tertiary priority
\* and from day 4 on "Day N context", then, exactly when some day 2..k has
\* prior prompts, the prompts section with the prompts of those days in day
\* order; the prior prompts of Day 1 are never in it.
CompositionOrder ==
  (fin.op = "prompts" /\ Len(fout.requests) = 1 /\ Len(DayTexts) >= 2) =>
    LET parts == fout.requests[1].instruction.analysis_content
        k == Len(DayTexts)
    IN /\ Len(parts) = k + 1 + (IF DaysWithPrompts = {} THEN 0
                                ELSE 1 + Cardinality(DaysWithPrompts))
       /\ parts[1].part = "primary" /\ parts[1].day = 1
       /\ parts[2].part = "history_head"
       /\ \A i \in 2..k :
            /\ parts[i + 1].part = "context"
            /\ parts[i + 1].day = i
            /\ parts[i + 1].label =
                 (IF i = 2 THEN <<"SECONDARY PRIORITY">>
                  ELSE IF i = 3 THEN <<"TERTIARY PRIORITY">>
                  ELSE <<"Day ", DigitChars[i], " context">>)
       /\ DaysWithPrompts # {} => parts[k + 2].part = "prompts_head"
       /\ \A j \in (k + 3)..Len(parts) :
            /\ parts[j].part = "day_prompts"
            /\ parts[j].day \in DaysWithPrompts
            /\ parts[j].text = _extract_reflection_prompts(DayTexts[parts[j].day])
            /\ j < Len(parts) => parts[j].day < parts[j + 1].day

\* a request for an input of four days or more in which Day 1 and a later
\* day have prior prompts and another later day has none
FourDaysSomePrompts ==
  /\ fin.op = "prompts"
  /\ Len(fout.requests) = 1
  /\ Len(DayTexts) >= 4
  /\ _extract_reflection_prompts(DayTexts[1]) # <<>>
  /\ DaysWithPrompts # {}
  /\ DaysWithPrompts # 2..Len(DayTexts)

\* C17: the growth trajectory never renders more than 5 segments, and
\* renders exactly 5 segments whenever there are at least 5 valid entries.
FiveSegments ==
  fpc = "growth_out" =>
    /\ Len(fout) <= TrajectoryParts
    /\ Len(fin) >= TrajectoryParts => Len(fout) = TrajectoryParts

\* C19: for a query and an entry whose ThemeSets are not empty and hold at
\* most 5 themes each, the entry passes the 0.08 threshold exactly when it
\* shares a theme with the query, and a score that is not zero is at least
\* 1/9.
SharedThemeKept ==
  fpc = "sim_out" =>
    /\ fout.kept <=> fin.query \cap fin.entry # {}
    /\ fout.similarity[1] > 0 => 9 * fout.similarity[1] >= fout.similarity[2]

\* a query and an entry of five themes each that share exactly one theme
SmallestScoreKept ==
  /\ fpc = "sim_out"
  /\ Cardinality(fin.query) = MaxThemeCount
  /\ Cardinality(fin.entry) = MaxThemeCount
  /\ fout.similarity = <<1, 9>>
  /\ fout.kept

\* the valid entries whose ThemeSet contains the theme
EntriesWith(theme) == {i \in 1..Len(fin) : theme \in ToSet(fin[i].themes)}

\* C20: every block of the Core Themes section reports as its frequency the
\* number of valid entries whose ThemeSet contains the theme, so the
\* frequency is at most the number of valid entries and the percentage at
\* most 100, also when a ThemeSet lists a theme more than once.
FrequencyCountsEntries ==
  fpc = "themes_out" =>
    \A i \in 1..Len(fout) :
      /\ fout[i].count = Cardinality(EntriesWith(fout[i].theme))
      /\ fout[i].count <= Len(fin)
      /\ fout[i].percentage <= 100

====
